---- MODULE Spec2Model ----
(***************************************************************************)
(* Model of programs/1kx_hook/src/lib.rs: the Token-2022 transfer hook     *)
(* that caps the balance of non-exempt holders, and the timelocked         *)
(* governance of that cap (propose / execute / cancel), the rotation of    *)
(* the governance authority and the config migration.                      *)
(*                                                                         *)
(* The program's numbers are u64 amounts and i64 timestamps.  TLC's        *)
(* integers are 32 bits wide, so a number is written here in radix 10^9    *)
(* as <<hi, mid, lo>>, standing for hi * 10^18 + mid * 10^9 + lo with      *)
(* 0 <= mid, lo < 10^9 and hi any integer (negative for a negative         *)
(* number).  The constants keep the values the source gives them.          *)
(***************************************************************************)
EXTENDS Integers, Sequences, FiniteSets, TLC

\* ------------------------------------------------------------------------
\* Arithmetic on numbers in radix 10^9
\* ------------------------------------------------------------------------
Base == 10^9

Norm(h, m, l) ==
    LET m1 == m + (l \div Base)
    IN  <<h + (m1 \div Base), m1 % Base, l % Base>>

Add(a, b) == Norm(a[1] + b[1], a[2] + b[2], a[3] + b[3])
Sub(a, b) == Norm(a[1] - b[1], a[2] - b[2], a[3] - b[3])

Lt(a, b) ==
    \/ a[1] < b[1]
    \/ a[1] = b[1] /\ a[2] < b[2]
    \/ a[1] = b[1] /\ a[2] = b[2] /\ a[3] < b[3]
Leq(a, b) == a = b \/ Lt(a, b)
Gt(a, b) == Lt(b, a)
Geq(a, b) == Leq(b, a)

\* A number below 10^9.
Small(n) == <<0, 0, n>>
Zero == Small(0)
One == Small(1)

\* 2^64, u64::MAX = 2^64 - 1, i64::MAX = 2^63 - 1 and i64::MIN = -2^63.
TWO64 == <<18, 446744073, 709551616>>
U64_MAX == <<18, 446744073, 709551615>>
I64_MAX == <<9, 223372036, 854775807>>
I64_MIN == <<-10, 776627963, 145224192>>

\* u64::saturating_add: the sum, or u64::MAX when the sum does not fit.
saturating_add_wraps(a, b) ==
    IF Gt(Add(a, b), U64_MAX) THEN Sub(Add(a, b), TWO64) ELSE Add(a, b)
saturating_add(a, b) ==
    IF Gt(Add(a, b), U64_MAX) THEN U64_MAX ELSE Add(a, b)

\* i64 `+` in a build without overflow checks: the sum modulo 2^64, in
\* i64::MIN..i64::MAX.
wrapping_add_i64(a, b) ==
    LET s == Add(a, b)
    IN  IF Gt(s, I64_MAX) THEN Sub(s, TWO64)
        ELSE IF Lt(s, I64_MIN) THEN Add(s, TWO64)
        ELSE s

\* Whether the i64 sum a + b overflows (a panic in a build with overflow
\* checks).
overflows_i64(a, b) == Gt(Add(a, b), I64_MAX) \/ Lt(Add(a, b), I64_MIN)

\* ------------------------------------------------------------------------
\* Program constants
\* ------------------------------------------------------------------------
\* const WALLET_CAP_RAW: u64 = 5_000_000_000
WALLET_CAP_RAW == <<0, 5, 0>>
\* let max_reasonable_cap = 100_000_000_000u64
max_reasonable_cap == <<0, 100, 0>>
\* let timelock_duration = 48 * 60 * 60
timelock_duration == Small(48 * 60 * 60)

\* The owner the three accounts of a transfer must have, and another
\* program (the legacy token program) that a spoofed account is owned by.
TOKEN_2022_PROGRAM_ID == "TokenzQdBNbLqP5VEhdkAS6EPFLC1PHnBqCXEpPxuEb"
TOKEN_PROGRAM_ID == "TokenkegQfeZyiNwAJbNbGKPFXCWuBvf9Ss623VQ5DA"
ProgramIds == {TOKEN_2022_PROGRAM_ID, TOKEN_PROGRAM_ID}

\* Option<T>
None == <<>>
Some(x) == <<x>>

\* ------------------------------------------------------------------------
\* Bounds of the model
\* ------------------------------------------------------------------------
\* Pubkeys are 1..NumKeys.
NumKeys == 2
\* The clock advances at most MaxTicks times.
MaxTicks == 2

\* The ledger applies at most MaxTransfers transfers.
MaxTransfers == 3

Keys == 1..NumKeys

\* Clock values the model starts from: a present-day timestamp, and the last
\* timestamp to which timelock_duration can be added without overflow.
ClockStarts == {<<0, 1, 700000000>>, Sub(I64_MAX, timelock_duration)}
\* Steps by which the clock advances: one second, and one second less than
\* the timelock.
TickSteps == {One, Sub(timelock_duration, One)}

\* Arguments the model calls the program with.
NewCaps == {Zero, One, max_reasonable_cap, Add(max_reasonable_cap, One)}
TargetVersions == {0, 1, 2, 255}
\* Transfers, as <<balance of the destination, amount>>: to exactly
\* WALLET_CAP_RAW, to one more, to exactly 1, and past u64::MAX.
Transfers ==
    {<<<<0, 4, 999999999>>, One>>, <<<<0, 4, 999999999>>, Small(2)>>, <<Zero, One>>,
     <<Sub(U64_MAX, Small(1000)), Small(2000)>>}
\* The data of the destination account: a token account (its owner and its
\* amount), or bytes that do not unpack as one.
TokenAccount(owner, amount) == Some([owner |-> owner, amount |-> amount])
InvalidData == None
\* The calls of a hook entry point, as <<owners, destination data, amount>>,
\* owners being the owners of the source account, the destination account
\* and the mint.  With the three accounts genuine: each transfer to each
\* key, and a destination that is no token account; with one or more of them
\* spoofed: a transfer of 1 to an empty account of the first key.
Owners == ProgramIds \X ProgramIds \X ProgramIds
Genuine == <<TOKEN_2022_PROGRAM_ID, TOKEN_2022_PROGRAM_ID, TOKEN_2022_PROGRAM_ID>>
HookCalls ==
    {<<Genuine, TokenAccount(k, t[1]), t[2]>> : k \in Keys, t \in Transfers}
    \cup {<<Genuine, InvalidData, One>>}
    \cup {<<o, TokenAccount(1, Zero), One>> : o \in Owners \ {Genuine}}
\* The calls of the governance instructions, as <<governance_authority,
\* whether it signed, arguments>>: signed by each key with each argument,
\* and not signed.
GovernanceCalls(Args) ==
    {<<k, TRUE, x>> : k \in Keys, x \in Args} \cup {<<1, FALSE, x>> : x \in {CHOOSE y \in Args : TRUE}}
InitializeCalls ==
    {<<TRUE, w, g>> : w \in Keys, g \in Keys} \cup {<<FALSE, 1, 1>>}
\* The amounts the ledger is asked to transfer: 1, 5_000_000_000 and
\* 5_000_000_001; the caps in force while it runs: the least and the
\* greatest cap propose_wallet_cap_update accepts, and the initial one.
LedgerAmounts == {One, <<0, 5, 0>>, <<0, 5, 1>>}
LedgerCaps == {One, WALLET_CAP_RAW, max_reasonable_cap}

\* ------------------------------------------------------------------------
\* State
\* ------------------------------------------------------------------------
VARIABLES
    config,   \* the HookConfig account of the mint: None before initialize
    clock,    \* Clock::get()?.unix_timestamp
    last,     \* the outcome of the last instruction processed
    ticks,    \* how often the clock has advanced
    balance,  \* the ledger: the amount of the token account of each key
    transfers \* how many transfers the ledger has applied

vars == <<config, clock, last, ticks, balance, transfers>>

\* HookConfig, PendingCapUpdate
HookConfig(version, dev_wallet, wallet_cap_raw, governance_authority, pending_cap_update) ==
    [version |-> version, dev_wallet |-> dev_wallet, wallet_cap_raw |-> wallet_cap_raw,
     governance_authority |-> governance_authority,
     pending_cap_update |-> pending_cap_update]
PendingCapUpdate(new_cap, proposed_at, execution_time) ==
    [new_cap |-> new_cap, proposed_at |-> proposed_at, execution_time |-> execution_time]

\* What a handler returns: its result ("Ok" or the error), the config
\* account as the handler left it in memory, and the events it emitted.
Ok(cfg, evs) == [result |-> "Ok", config |-> cfg, emitted |-> evs]
Err(e, cfg) == [result |-> e, config |-> cfg, emitted |-> <<>>]

\* What last records: the instruction, its result and the events it
\* emitted; for a governance instruction the key that signed as
\* governance_authority (None when it did not sign); as call, for the two
\* hook entry points the owners of the source account, the destination
\* account and the mint, the destination's data and the amount, for
\* propose_wallet_cap_update its new_cap and for update_governance_authority
\* its new_governance_authority; for the hook entry points the
\* post-transfer balance computed (None where the hook did not get there).
Outcome(op, result, emitted, signer, call, post_balance) ==
    [op |-> op, result |-> result, emitted |-> emitted, signer |-> signer,
     call |-> call, post_balance |-> post_balance]
NoCall == Outcome("none", "none", <<>>, None, None, None)

\* ------------------------------------------------------------------------
\* Account validation (#[derive(Accounts)])
\* ------------------------------------------------------------------------
\* Initialize: `init` creates the config account, which fails when the
\* account exists already; the payer signs.
\* Initialize with init_if_needed for init: an existing config account is
\* accepted.
Initialize_if_needed(cfg, payer_signed) ==
    IF ~payer_signed THEN "AccountNotSigner"
    ELSE "Ok"

Initialize(cfg, payer_signed) ==
    IF ~payer_signed THEN "AccountNotSigner"
    ELSE IF cfg # None THEN "AccountAlreadyInUse"
    ELSE "Ok"

\* TransferHook, Execute: config is an Account<HookConfig>, so it has to
\* exist; source, mint, destination, owner and extra_account_meta_list are
\* unchecked.  The calls modelled pass the Token-2022 program as
\* token_program and the config account of the mint.
TransferHook(cfg) == IF cfg = None THEN "AccountNotInitialized" ELSE "Ok"
Execute(cfg) == IF cfg = None THEN "AccountNotInitialized" ELSE "Ok"

\* The five governance instructions: config has to exist,
\* governance_authority is a Signer, and the constraint
\* config.governance_authority == governance_authority.key() holds, else
\* UnauthorizedGovernance.
ProposeWalletCapUpdate(cfg, governance_authority, signed) ==
    IF cfg = None THEN "AccountNotInitialized"
    ELSE IF ~signed THEN "AccountNotSigner"
    ELSE IF cfg[1].governance_authority # governance_authority THEN "UnauthorizedGovernance"
    ELSE "Ok"

\* ExecuteWalletCapUpdate without the constraint on governance_authority.
ExecuteWalletCapUpdate_unconstrained(cfg, governance_authority, signed) ==
    IF cfg = None THEN "AccountNotInitialized"
    ELSE IF ~signed THEN "AccountNotSigner"
    ELSE "Ok"

ExecuteWalletCapUpdate(cfg, governance_authority, signed) ==
    IF cfg = None THEN "AccountNotInitialized"
    ELSE IF ~signed THEN "AccountNotSigner"
    ELSE IF cfg[1].governance_authority # governance_authority THEN "UnauthorizedGovernance"
    ELSE "Ok"

CancelWalletCapUpdate(cfg, governance_authority, signed) ==
    IF cfg = None THEN "AccountNotInitialized"
    ELSE IF ~signed THEN "AccountNotSigner"
    ELSE IF cfg[1].governance_authority # governance_authority THEN "UnauthorizedGovernance"
    ELSE "Ok"

UpdateGovernanceAuthority(cfg, governance_authority, signed) ==
    IF cfg = None THEN "AccountNotInitialized"
    ELSE IF ~signed THEN "AccountNotSigner"
    ELSE IF cfg[1].governance_authority # governance_authority THEN "UnauthorizedGovernance"
    ELSE "Ok"

MigrateConfig(cfg, governance_authority, signed) ==
    IF cfg = None THEN "AccountNotInitialized"
    ELSE IF ~signed THEN "AccountNotSigner"
    ELSE IF cfg[1].governance_authority # governance_authority THEN "UnauthorizedGovernance"
    ELSE "Ok"

\* ------------------------------------------------------------------------
\* Instruction handlers (mod one_kx_hook)
\* ------------------------------------------------------------------------
initialize(dev_wallet, governance_authority) ==
    Ok(HookConfig(1, dev_wallet, WALLET_CAP_RAW, governance_authority, None), <<>>)

\* The decision of a hook entry point: the result and the post-transfer
\* balance, where the hook computed one.
Decision(result, post_balance) == [result |-> result, post_balance |-> post_balance]

\* transfer_hook with `<` for `<=` in the cap check.
transfer_hook_strict(cfg, source_owner, destination_owner, mint_owner, destination_data, amount) ==
    IF source_owner # TOKEN_2022_PROGRAM_ID THEN Decision("InvalidAccountOwner", None)
    ELSE IF destination_owner # TOKEN_2022_PROGRAM_ID THEN Decision("InvalidAccountOwner", None)
    ELSE IF mint_owner # TOKEN_2022_PROGRAM_ID THEN Decision("InvalidAccountOwner", None)
    ELSE IF destination_data = InvalidData THEN Decision("InvalidAccountData", None)
    ELSE LET destination_account == destination_data[1]
             post_balance == saturating_add(destination_account.amount, amount)
         IN  IF destination_account.owner = cfg.dev_wallet THEN Decision("Ok", None)
             ELSE IF ~Lt(post_balance, cfg.wallet_cap_raw)
                 THEN Decision("WalletCapExceeded", Some(post_balance))
             ELSE Decision("Ok", Some(post_balance))

\* transfer_hook with the cap check ahead of the dev wallet's exemption.
transfer_hook_cap_first(cfg, source_owner, destination_owner, mint_owner, destination_data, amount) ==
    IF source_owner # TOKEN_2022_PROGRAM_ID THEN Decision("InvalidAccountOwner", None)
    ELSE IF destination_owner # TOKEN_2022_PROGRAM_ID THEN Decision("InvalidAccountOwner", None)
    ELSE IF mint_owner # TOKEN_2022_PROGRAM_ID THEN Decision("InvalidAccountOwner", None)
    ELSE IF destination_data = InvalidData THEN Decision("InvalidAccountData", None)
    ELSE LET destination_account == destination_data[1]
             post_balance == saturating_add(destination_account.amount, amount)
         IN  IF ~Leq(post_balance, cfg.wallet_cap_raw)
                 THEN Decision("WalletCapExceeded", Some(post_balance))
             ELSE IF destination_account.owner = cfg.dev_wallet THEN Decision("Ok", None)
             ELSE Decision("Ok", Some(post_balance))

\* transfer_hook comparing with the new_cap of the pending update, where
\* there is one.
transfer_hook_pending_cap(cfg, source_owner, destination_owner, mint_owner, destination_data, amount) ==
    IF source_owner # TOKEN_2022_PROGRAM_ID THEN Decision("InvalidAccountOwner", None)
    ELSE IF destination_owner # TOKEN_2022_PROGRAM_ID THEN Decision("InvalidAccountOwner", None)
    ELSE IF mint_owner # TOKEN_2022_PROGRAM_ID THEN Decision("InvalidAccountOwner", None)
    ELSE IF destination_data = InvalidData THEN Decision("InvalidAccountData", None)
    ELSE LET destination_account == destination_data[1]
             post_balance == saturating_add(destination_account.amount, amount)
             cap == IF cfg.pending_cap_update = None THEN cfg.wallet_cap_raw
                    ELSE cfg.pending_cap_update[1].new_cap
         IN  IF destination_account.owner = cfg.dev_wallet THEN Decision("Ok", None)
             ELSE IF ~Leq(post_balance, cap)
                 THEN Decision("WalletCapExceeded", Some(post_balance))
             ELSE Decision("Ok", Some(post_balance))

\* transfer_hook without the check of the mint's owner.
transfer_hook_unchecked_mint(cfg, source_owner, destination_owner, mint_owner, destination_data, amount) ==
    IF source_owner # TOKEN_2022_PROGRAM_ID THEN Decision("InvalidAccountOwner", None)
    ELSE IF destination_owner # TOKEN_2022_PROGRAM_ID THEN Decision("InvalidAccountOwner", None)
    ELSE IF destination_data = InvalidData THEN Decision("InvalidAccountData", None)
    ELSE LET destination_account == destination_data[1]
             post_balance == saturating_add(destination_account.amount, amount)
         IN  IF destination_account.owner = cfg.dev_wallet THEN Decision("Ok", None)
             ELSE IF ~Leq(post_balance, cfg.wallet_cap_raw)
                 THEN Decision("WalletCapExceeded", Some(post_balance))
             ELSE Decision("Ok", Some(post_balance))

transfer_hook(cfg, source_owner, destination_owner, mint_owner, destination_data, amount) ==
    IF source_owner # TOKEN_2022_PROGRAM_ID THEN Decision("InvalidAccountOwner", None)
    ELSE IF destination_owner # TOKEN_2022_PROGRAM_ID THEN Decision("InvalidAccountOwner", None)
    ELSE IF mint_owner # TOKEN_2022_PROGRAM_ID THEN Decision("InvalidAccountOwner", None)
    ELSE IF destination_data = InvalidData THEN Decision("InvalidAccountData", None)
    ELSE LET destination_account == destination_data[1]
             post_balance == saturating_add(destination_account.amount, amount)
         IN  IF destination_account.owner = cfg.dev_wallet THEN Decision("Ok", None)
             ELSE IF ~Leq(post_balance, cfg.wallet_cap_raw)
                 THEN Decision("WalletCapExceeded", Some(post_balance))
             ELSE Decision("Ok", Some(post_balance))

\* execute with `<` for `<=` in the cap check.
execute_strict(cfg, source_owner, destination_owner, mint_owner, destination_data, amount) ==
    IF source_owner # TOKEN_2022_PROGRAM_ID THEN Decision("InvalidAccountOwner", None)
    ELSE IF destination_owner # TOKEN_2022_PROGRAM_ID THEN Decision("InvalidAccountOwner", None)
    ELSE IF mint_owner # TOKEN_2022_PROGRAM_ID THEN Decision("InvalidAccountOwner", None)
    ELSE IF destination_data = InvalidData THEN Decision("InvalidAccountData", None)
    ELSE LET destination_account == destination_data[1]
             post_balance == saturating_add(destination_account.amount, amount)
         IN  IF destination_account.owner = cfg.dev_wallet THEN Decision("Ok", None)
             ELSE IF ~Lt(post_balance, cfg.wallet_cap_raw)
                 THEN Decision("WalletCapExceeded", Some(post_balance))
             ELSE Decision("Ok", Some(post_balance))

\* execute comparing the amount alone, not the post-transfer balance, with
\* the cap.
execute_amount_only(cfg, source_owner, destination_owner, mint_owner, destination_data, amount) ==
    IF source_owner # TOKEN_2022_PROGRAM_ID THEN Decision("InvalidAccountOwner", None)
    ELSE IF destination_owner # TOKEN_2022_PROGRAM_ID THEN Decision("InvalidAccountOwner", None)
    ELSE IF mint_owner # TOKEN_2022_PROGRAM_ID THEN Decision("InvalidAccountOwner", None)
    ELSE IF destination_data = InvalidData THEN Decision("InvalidAccountData", None)
    ELSE LET destination_account == destination_data[1]
             post_balance == amount
         IN  IF destination_account.owner = cfg.dev_wallet THEN Decision("Ok", None)
             ELSE IF ~Leq(post_balance, cfg.wallet_cap_raw)
                 THEN Decision("WalletCapExceeded", Some(post_balance))
             ELSE Decision("Ok", Some(post_balance))

execute(cfg, source_owner, destination_owner, mint_owner, destination_data, amount) ==
    IF source_owner # TOKEN_2022_PROGRAM_ID THEN Decision("InvalidAccountOwner", None)
    ELSE IF destination_owner # TOKEN_2022_PROGRAM_ID THEN Decision("InvalidAccountOwner", None)
    ELSE IF mint_owner # TOKEN_2022_PROGRAM_ID THEN Decision("InvalidAccountOwner", None)
    ELSE IF destination_data = InvalidData THEN Decision("InvalidAccountData", None)
    ELSE LET destination_account == destination_data[1]
             post_balance == saturating_add(destination_account.amount, amount)
         IN  IF destination_account.owner = cfg.dev_wallet THEN Decision("Ok", None)
             ELSE IF ~Leq(post_balance, cfg.wallet_cap_raw)
                 THEN Decision("WalletCapExceeded", Some(post_balance))
             ELSE Decision("Ok", Some(post_balance))

\* The events (#[event])
WalletCapUpdateProposed(new_cap, current_cap, proposed_at, execution_time, governance_authority) ==
    [name |-> "WalletCapUpdateProposed", new_cap |-> new_cap, current_cap |-> current_cap,
     proposed_at |-> proposed_at, execution_time |-> execution_time,
     governance_authority |-> governance_authority]
WalletCapUpdated(old_cap, new_cap, updated_at, governance_authority) ==
    [name |-> "WalletCapUpdated", old_cap |-> old_cap, new_cap |-> new_cap,
     updated_at |-> updated_at, governance_authority |-> governance_authority]
WalletCapUpdateCanceled(canceled_cap, current_cap, canceled_at, governance_authority) ==
    [name |-> "WalletCapUpdateCanceled", canceled_cap |-> canceled_cap,
     current_cap |-> current_cap, canceled_at |-> canceled_at,
     governance_authority |-> governance_authority]
GovernanceAuthorityUpdated(old_authority, new_authority, updated_at) ==
    [name |-> "GovernanceAuthorityUpdated", old_authority |-> old_authority,
     new_authority |-> new_authority, updated_at |-> updated_at]
ConfigMigrated(old_version, new_version, migrated_at, governance_authority) ==
    [name |-> "ConfigMigrated", old_version |-> old_version, new_version |-> new_version,
     migrated_at |-> migrated_at, governance_authority |-> governance_authority]

\* propose_wallet_cap_update.  The i64 sum clock.unix_timestamp +
\* timelock_duration panics on overflow in a build with overflow checks and
\* wraps in a build without.
\* propose_wallet_cap_update without require!(new_cap > 0).
propose_wallet_cap_update_accepts_zero(cfg, governance_authority, new_cap, now, checks) ==
    IF ~Leq(new_cap, max_reasonable_cap) THEN Err("InvalidWalletCap", cfg)
    ELSE IF checks /\ overflows_i64(now, timelock_duration) THEN Err("Panic", cfg)
    ELSE LET execution_time == wrapping_add_i64(now, timelock_duration)
         IN  Ok([cfg EXCEPT !.pending_cap_update =
                     Some(PendingCapUpdate(new_cap, now, execution_time))],
                <<WalletCapUpdateProposed(new_cap, cfg.wallet_cap_raw, now, execution_time,
                                          governance_authority)>>)

\* propose_wallet_cap_update without require!(new_cap <= max_reasonable_cap).
propose_wallet_cap_update_no_ceiling(cfg, governance_authority, new_cap, now, checks) ==
    IF ~Gt(new_cap, Zero) THEN Err("InvalidWalletCap", cfg)
    ELSE IF checks /\ overflows_i64(now, timelock_duration) THEN Err("Panic", cfg)
    ELSE LET execution_time == wrapping_add_i64(now, timelock_duration)
         IN  Ok([cfg EXCEPT !.pending_cap_update =
                     Some(PendingCapUpdate(new_cap, now, execution_time))],
                <<WalletCapUpdateProposed(new_cap, cfg.wallet_cap_raw, now, execution_time,
                                          governance_authority)>>)

propose_wallet_cap_update(cfg, governance_authority, new_cap, now, checks) ==
    IF ~Gt(new_cap, Zero) THEN Err("InvalidWalletCap", cfg)
    ELSE IF ~Leq(new_cap, max_reasonable_cap) THEN Err("InvalidWalletCap", cfg)
    ELSE IF checks /\ overflows_i64(now, timelock_duration) THEN Err("Panic", cfg)
    ELSE LET execution_time == wrapping_add_i64(now, timelock_duration)
         IN  Ok([cfg EXCEPT !.pending_cap_update =
                     Some(PendingCapUpdate(new_cap, now, execution_time))],
                <<WalletCapUpdateProposed(new_cap, cfg.wallet_cap_raw, now, execution_time,
                                          governance_authority)>>)

\* execute_wallet_cap_update checking the time first, against the
\* execution_time of the pending update or, with none, i64::MAX.
execute_wallet_cap_update_time_first(cfg, governance_authority, now) ==
    LET execution_time == IF cfg.pending_cap_update = None THEN I64_MAX
                          ELSE cfg.pending_cap_update[1].execution_time
    IN  IF ~Geq(now, execution_time) THEN Err("TimelockNotExpired", cfg)
        ELSE IF cfg.pending_cap_update = None THEN Err("NoPendingUpdate", cfg)
        ELSE LET pending_update == cfg.pending_cap_update[1]
                 old_cap == cfg.wallet_cap_raw
                 cfg1 == [cfg EXCEPT !.wallet_cap_raw = pending_update.new_cap]
                 cfg2 == [cfg1 EXCEPT !.pending_cap_update = None]
             IN  Ok(cfg2, <<WalletCapUpdated(old_cap, cfg2.wallet_cap_raw, now,
                                             governance_authority)>>)

\* execute_wallet_cap_update reading old_cap after the assignment to
\* config.wallet_cap_raw.
execute_wallet_cap_update_late_old_cap(cfg, governance_authority, now) ==
    IF cfg.pending_cap_update = None THEN Err("NoPendingUpdate", cfg)
    ELSE LET pending_update == cfg.pending_cap_update[1]
         IN  IF ~Geq(now, pending_update.execution_time) THEN Err("TimelockNotExpired", cfg)
             ELSE LET cfg1 == [cfg EXCEPT !.wallet_cap_raw = pending_update.new_cap]
                      old_cap == cfg1.wallet_cap_raw
                      cfg2 == [cfg1 EXCEPT !.pending_cap_update = None]
                  IN  Ok(cfg2, <<WalletCapUpdated(old_cap, cfg2.wallet_cap_raw, now,
                                                  governance_authority)>>)

\* execute_wallet_cap_update with `==` for `>=` in the timelock check.
execute_wallet_cap_update_exact_time(cfg, governance_authority, now) ==
    IF cfg.pending_cap_update = None THEN Err("NoPendingUpdate", cfg)
    ELSE LET pending_update == cfg.pending_cap_update[1]
         IN  IF now # pending_update.execution_time THEN Err("TimelockNotExpired", cfg)
             ELSE LET old_cap == cfg.wallet_cap_raw
                      cfg1 == [cfg EXCEPT !.wallet_cap_raw = pending_update.new_cap]
                      cfg2 == [cfg1 EXCEPT !.pending_cap_update = None]
                  IN  Ok(cfg2, <<WalletCapUpdated(old_cap, cfg2.wallet_cap_raw, now,
                                                  governance_authority)>>)

execute_wallet_cap_update(cfg, governance_authority, now) ==
    IF cfg.pending_cap_update = None THEN Err("NoPendingUpdate", cfg)
    ELSE LET pending_update == cfg.pending_cap_update[1]
         IN  IF ~Geq(now, pending_update.execution_time) THEN Err("TimelockNotExpired", cfg)
             ELSE LET old_cap == cfg.wallet_cap_raw
                      cfg1 == [cfg EXCEPT !.wallet_cap_raw = pending_update.new_cap]
                      cfg2 == [cfg1 EXCEPT !.pending_cap_update = None]
                  IN  Ok(cfg2, <<WalletCapUpdated(old_cap, cfg2.wallet_cap_raw, now,
                                                  governance_authority)>>)

\* cancel_wallet_cap_update reading the pending update without taking it.
cancel_wallet_cap_update_keeps(cfg, governance_authority, now) ==
    IF cfg.pending_cap_update = None THEN Err("NoPendingUpdate", cfg)
    ELSE LET canceled_update == cfg.pending_cap_update[1]
         IN  Ok(cfg, <<WalletCapUpdateCanceled(canceled_update.new_cap, cfg.wallet_cap_raw,
                                               now, governance_authority)>>)

cancel_wallet_cap_update(cfg, governance_authority, now) ==
    IF cfg.pending_cap_update = None THEN Err("NoPendingUpdate", cfg)
    ELSE LET canceled_update == cfg.pending_cap_update[1]
             cfg1 == [cfg EXCEPT !.pending_cap_update = None]
         IN  Ok(cfg1, <<WalletCapUpdateCanceled(canceled_update.new_cap, cfg1.wallet_cap_raw,
                                                now, governance_authority)>>)

\* update_governance_authority emitting the event without the assignment to
\* config.governance_authority.
update_governance_authority_unassigned(cfg, new_governance_authority, now) ==
    LET old_authority == cfg.governance_authority
    IN  Ok(cfg, <<GovernanceAuthorityUpdated(old_authority, new_governance_authority, now)>>)

\* update_governance_authority dropping the pending update of the outgoing
\* authority.
update_governance_authority_clears_pending(cfg, new_governance_authority, now) ==
    LET old_authority == cfg.governance_authority
        cfg1 == [cfg EXCEPT !.governance_authority = new_governance_authority,
                            !.pending_cap_update = None]
    IN  Ok(cfg1, <<GovernanceAuthorityUpdated(old_authority, new_governance_authority, now)>>)

update_governance_authority(cfg, new_governance_authority, now) ==
    LET old_authority == cfg.governance_authority
        cfg1 == [cfg EXCEPT !.governance_authority = new_governance_authority]
    IN  Ok(cfg1, <<GovernanceAuthorityUpdated(old_authority, new_governance_authority, now)>>)

\* migrate_config: the match has no arm but the wildcard, which returns
\* UnsupportedMigration, so the assignment and the emit! after it are never
\* reached.
\* migrate_config with the ceiling raised to 2 and an arm (1, 2) in the
\* match, so that the assignment and the emit! are reached.
migrate_config_v2(cfg, governance_authority, target_version, now) ==
    LET current_version == cfg.version
    IN  IF ~(target_version > current_version) THEN Err("InvalidMigrationVersion", cfg)
        ELSE IF ~(target_version <= 2) THEN Err("UnsupportedVersion", cfg)
        ELSE IF <<current_version, target_version>> # <<1, 2>>
            THEN Err("UnsupportedMigration", cfg)
        ELSE Ok([cfg EXCEPT !.version = target_version],
                <<ConfigMigrated(current_version, target_version, now, governance_authority)>>)

migrate_config(cfg, governance_authority, target_version, now) ==
    LET current_version == cfg.version
    IN  IF ~(target_version > current_version) THEN Err("InvalidMigrationVersion", cfg)
        ELSE IF ~(target_version <= 1) THEN Err("UnsupportedVersion", cfg)
        ELSE Err("UnsupportedMigration", cfg)

\* ------------------------------------------------------------------------
\* The program as a state machine: one action per instruction
\* ------------------------------------------------------------------------
Init ==
    /\ config = None
    /\ clock \in ClockStarts
    /\ last = NoCall
    /\ ticks = 0
    /\ balance = [k \in Keys |-> Zero]
    /\ transfers = 0

\* An instruction processed: the account is written back when it returns Ok,
\* and is left as it was when it fails.
Commit(op, signer, args, r) ==
    /\ config' = IF r.result = "Ok" THEN Some(r.config) ELSE config
    /\ last' = Outcome(op, r.result, r.emitted, signer, args, None)
    /\ UNCHANGED <<clock, ticks, balance, transfers>>

\* An instruction rejected by the account validation.
Reject(op, signer, args, e) ==
    /\ last' = Outcome(op, e, <<>>, signer, args, None)
    /\ UNCHANGED <<config, clock, ticks, balance, transfers>>

\* Decide with the hook crediting the destination itself, where it accepts.
Decide_credits(op, call, d) ==
    /\ last' = Outcome(op, d.result, <<>>, None, Some(call), d.post_balance)
    /\ balance' = IF d.result = "Ok" /\ call[2] # InvalidData
                      THEN [balance EXCEPT ![call[2][1].owner] =
                                saturating_add(call[2][1].amount, call[3])]
                      ELSE balance
    /\ UNCHANGED <<config, clock, ticks, transfers>>

\* The two hook entry points write nothing; last records the call and the
\* decision.
Decide(op, call, d) ==
    /\ last' = Outcome(op, d.result, <<>>, None, Some(call), d.post_balance)
    /\ UNCHANGED <<config, clock, ticks, balance, transfers>>

\* The key that signed as governance_authority.
Signer(governance_authority, signed) == IF signed THEN Some(governance_authority) ELSE None

InitializeCall(payer_signed, dev_wallet, governance_authority) ==
    LET v == Initialize(config, payer_signed)
    IN  IF v # "Ok" THEN Reject("initialize", None, None, v)
        ELSE Commit("initialize", None, None, initialize(dev_wallet, governance_authority))

TransferHookCall(source_owner, destination_owner, mint_owner, destination_data, amount) ==
    LET v == TransferHook(config)
    IN  IF v # "Ok" THEN Reject("transfer_hook", None, None, v)
        ELSE Decide("transfer_hook",
                    <<<<source_owner, destination_owner, mint_owner>>, destination_data, amount>>,
                    transfer_hook(config[1], source_owner, destination_owner, mint_owner,
                                  destination_data, amount))

ExecuteCall(source_owner, destination_owner, mint_owner, destination_data, amount) ==
    LET v == Execute(config)
    IN  IF v # "Ok" THEN Reject("execute", None, None, v)
        ELSE Decide("execute",
                    <<<<source_owner, destination_owner, mint_owner>>, destination_data, amount>>,
                    execute(config[1], source_owner, destination_owner, mint_owner,
                            destination_data, amount))

\* ProposeCall with the pending update stored ahead of the validation of
\* new_cap, and kept when that fails.
ProposeCall_stores_first(governance_authority, signed, new_cap, checks) ==
    LET v == ProposeWalletCapUpdate(config, governance_authority, signed)
        r == propose_wallet_cap_update(config[1], governance_authority, new_cap, clock, checks)
    IN  IF v # "Ok"
            THEN Reject("propose_wallet_cap_update", Signer(governance_authority, signed),
                        Some(new_cap), v)
        ELSE IF r.result = "InvalidWalletCap"
            THEN /\ config' = Some([config[1] EXCEPT !.pending_cap_update =
                                        Some(PendingCapUpdate(new_cap, clock, clock))])
                 /\ last' = Outcome("propose_wallet_cap_update", r.result, <<>>,
                                    Signer(governance_authority, signed), Some(new_cap), None)
                 /\ UNCHANGED <<clock, ticks, balance, transfers>>
        ELSE Commit("propose_wallet_cap_update", Signer(governance_authority, signed),
                    Some(new_cap), r)

\* checks: whether the build panics on arithmetic overflow.
ProposeCall(governance_authority, signed, new_cap, checks) ==
    LET v == ProposeWalletCapUpdate(config, governance_authority, signed)
    IN  IF v # "Ok"
            THEN Reject("propose_wallet_cap_update", Signer(governance_authority, signed),
                        Some(new_cap), v)
        ELSE Commit("propose_wallet_cap_update", Signer(governance_authority, signed),
                    Some(new_cap),
                    propose_wallet_cap_update(config[1], governance_authority, new_cap,
                                              clock, checks))

ExecuteUpdateCall(governance_authority, signed) ==
    LET v == ExecuteWalletCapUpdate(config, governance_authority, signed)
    IN  IF v # "Ok"
            THEN Reject("execute_wallet_cap_update", Signer(governance_authority, signed),
                        None, v)
        ELSE Commit("execute_wallet_cap_update", Signer(governance_authority, signed),
                    None,
                    execute_wallet_cap_update(config[1], governance_authority, clock))

CancelCall(governance_authority, signed) ==
    LET v == CancelWalletCapUpdate(config, governance_authority, signed)
    IN  IF v # "Ok"
            THEN Reject("cancel_wallet_cap_update", Signer(governance_authority, signed),
                        None, v)
        ELSE Commit("cancel_wallet_cap_update", Signer(governance_authority, signed),
                    None,
                    cancel_wallet_cap_update(config[1], governance_authority, clock))

RotateCall(governance_authority, signed, new_governance_authority) ==
    LET v == UpdateGovernanceAuthority(config, governance_authority, signed)
    IN  IF v # "Ok"
            THEN Reject("update_governance_authority", Signer(governance_authority, signed),
                        Some(new_governance_authority), v)
        ELSE Commit("update_governance_authority", Signer(governance_authority, signed),
                    Some(new_governance_authority),
                    update_governance_authority(config[1], new_governance_authority, clock))

MigrateCall(governance_authority, signed, target_version) ==
    LET v == MigrateConfig(config, governance_authority, signed)
    IN  IF v # "Ok"
            THEN Reject("migrate_config", Signer(governance_authority, signed),
                        None, v)
        ELSE Commit("migrate_config", Signer(governance_authority, signed),
                    None,
                    migrate_config(config[1], governance_authority, target_version, clock))

\* The runtime's clock advances.
Tick(d) ==
    /\ ticks < MaxTicks
    /\ Leq(Add(clock, d), I64_MAX)
    /\ clock' = Add(clock, d)
    /\ ticks' = ticks + 1
    /\ last' = NoCall
    /\ UNCHANGED <<config, balance, transfers>>

Next ==
    \/ \E c \in InitializeCalls : InitializeCall(c[1], c[2], c[3])
    \/ \E c \in HookCalls : TransferHookCall(c[1][1], c[1][2], c[1][3], c[2], c[3])
    \/ \E c \in HookCalls : ExecuteCall(c[1][1], c[1][2], c[1][3], c[2], c[3])
    \/ \E c \in GovernanceCalls(NewCaps), oc \in BOOLEAN : ProposeCall(c[1], c[2], c[3], oc)
    \/ \E c \in GovernanceCalls({0}) : ExecuteUpdateCall(c[1], c[2])
    \/ \E c \in GovernanceCalls({0}) : CancelCall(c[1], c[2])
    \/ \E c \in GovernanceCalls(Keys) : RotateCall(c[1], c[2], c[3])
    \/ \E c \in GovernanceCalls(TargetVersions) : MigrateCall(c[1], c[2], c[3])
    \/ \E d \in TickSteps : Tick(d)

Spec == Init /\ [][Next]_vars

\* ------------------------------------------------------------------------
\* The program under a ledger
\* ------------------------------------------------------------------------
\* The ledger holds one token account per key, all of them genuine, and asks
\* the hook about a transfer with the destination's balance as it is before
\* the transfer.  It starts with every balance 0 and with a config as
\* initialize and executed updates leave it: a dev wallet, an authority, a
\* cap and nothing pending.  The config does not change while it runs.
InitLedger ==
    /\ config \in {Some(HookConfig(1, w, c, g, None)) : w \in Keys, c \in LedgerCaps, g \in Keys}
    /\ clock \in ClockStarts
    /\ last = NoCall
    /\ ticks = 0
    /\ balance = [k \in Keys |-> Zero]
    /\ transfers = 0

\* The pre-check of a transfer of `amount` to the account of `to`:
\* transfer_hook is called and nothing is applied.
LedgerCheck(to, amount) ==
    TransferHookCall(TOKEN_2022_PROGRAM_ID, TOKEN_2022_PROGRAM_ID, TOKEN_2022_PROGRAM_ID,
                     TokenAccount(to, balance[to]), amount)

\* The settlement of a transfer of `amount` to the account of `to`: execute
\* is called, and the destination is credited iff it accepts (and the u64
\* balance does not overflow).
LedgerTransfer(to, amount) ==
    /\ transfers < MaxTransfers
    /\ LET v == Execute(config)
           destination_data == TokenAccount(to, balance[to])
           d == IF v # "Ok" THEN Decision(v, None)
                ELSE execute(config[1], TOKEN_2022_PROGRAM_ID, TOKEN_2022_PROGRAM_ID,
                             TOKEN_2022_PROGRAM_ID, destination_data, amount)
           credited == Add(balance[to], amount)
           result == IF d.result = "Ok" /\ Gt(credited, U64_MAX) THEN "Overflow" ELSE d.result
       IN  /\ last' = Outcome("transfer", result, <<>>, None,
                              Some(<<Genuine, destination_data, amount>>), d.post_balance)
           /\ balance' = IF result = "Ok" THEN [balance EXCEPT ![to] = credited] ELSE balance
           /\ transfers' = IF result = "Ok" THEN transfers + 1 ELSE transfers
    /\ UNCHANGED <<config, clock, ticks>>

NextLedger ==
    \/ \E to \in Keys, amount \in LedgerAmounts : LedgerCheck(to, amount)
    \/ \E to \in Keys, amount \in LedgerAmounts : LedgerTransfer(to, amount)

SpecLedger == InitLedger /\ [][NextLedger]_vars

\* ------------------------------------------------------------------------
\* The timelock under a clock that keeps advancing
\* ------------------------------------------------------------------------
\* The governance instructions from a present-day clock that advances by the
\* timelock or by one second less.  The clock of the model advances at most
\* MaxTicks times, so an update is proposed only while two advances, which
\* take the clock past its execution_time, are left.
LiveTickSteps == {Sub(timelock_duration, One), timelock_duration}

InitLive ==
    /\ config = None
    /\ clock = <<0, 1, 700000000>>
    /\ last = NoCall
    /\ ticks = 0
    /\ balance = [k \in Keys |-> Zero]
    /\ transfers = 0

LivePropose(governance_authority, signed, new_cap, checks) ==
    /\ ticks + 2 <= MaxTicks
    /\ ProposeCall(governance_authority, signed, new_cap, checks)

\* The authority attempts execute_wallet_cap_update.
AuthorityExecutes ==
    /\ config # None
    /\ ExecuteUpdateCall(config[1].governance_authority, TRUE)

LiveTick == \E d \in LiveTickSteps : Tick(d)

NextLive ==
    \/ \E c \in InitializeCalls : InitializeCall(c[1], c[2], c[3])
    \/ \E c \in GovernanceCalls(NewCaps), oc \in BOOLEAN : LivePropose(c[1], c[2], c[3], oc)
    \/ \E c \in GovernanceCalls({0}) : ExecuteUpdateCall(c[1], c[2])
    \/ \E c \in GovernanceCalls({0}) : CancelCall(c[1], c[2])
    \/ \E c \in GovernanceCalls(Keys) : RotateCall(c[1], c[2], c[3])
    \/ LiveTick

\* Fairness: the clock keeps advancing, and the authority keeps attempting
\* execute.
SpecLive ==
    /\ InitLive
    /\ [][NextLive]_vars
    /\ WF_vars(LiveTick)
    /\ WF_vars(AuthorityExecutes)

\* ------------------------------------------------------------------------
\* Properties
\* ------------------------------------------------------------------------
Initialized == config # None
HasPending == Initialized /\ config[1].pending_cap_update # None
\* The pending update, and the end of its timelock as the number
\* proposed_at + 48h (not the i64 the program stored).
Pending == config[1].pending_cap_update[1]
TimelockEnd == Add(Pending.proposed_at, timelock_duration)

\* C1: cap_raw changes only in a successful execute_wallet_cap_update step,
\* and then to the new_cap of the pending update, which a successful propose
\* stored at its clock time T, the execute's clock time being at least
\* T + 172800; no other instruction changes cap_raw.
C1_CapChangesOnlyByTimelockedExecute ==
    [][/\ (Initialized /\ config'[1].wallet_cap_raw # config[1].wallet_cap_raw) =>
              /\ last'.op = "execute_wallet_cap_update"
              /\ last'.result = "Ok"
              /\ HasPending
              /\ config'[1].wallet_cap_raw = Pending.new_cap
              /\ Geq(clock, TimelockEnd)
       /\ (Initialized /\ config'[1].pending_cap_update # None
              /\ config'[1].pending_cap_update # config[1].pending_cap_update) =>
              /\ last'.op = "propose_wallet_cap_update"
              /\ last'.result = "Ok"
              /\ config'[1].pending_cap_update[1].proposed_at = clock
      ]_vars

\* C2: with an update pending that was proposed at T, every execute by the
\* authority at now < T + 172800 fails with TimelockNotExpired, and every
\* execute by the authority at now >= T + 172800 succeeds, sets cap_raw to
\* the proposed cap and clears the pending update.
C2_TimelockGatesExecute ==
    [][\A g \in Keys :
          (HasPending /\ g = config[1].governance_authority /\ ExecuteUpdateCall(g, TRUE)) =>
              IF Lt(clock, TimelockEnd)
                  THEN last'.result = "TimelockNotExpired"
                  ELSE /\ last'.result = "Ok"
                       /\ config'[1].wallet_cap_raw = Pending.new_cap
                       /\ config'[1].pending_cap_update = None
      ]_vars

\* C6: a successful propose(Y) at T' while an update proposed at T < T' is
\* pending leaves the one pending update <<Y, T', T' + 172800>>, and
\* every execute before T' + 172800 fails with TimelockNotExpired.
C6_ProposeOverwritesPending ==
    [][/\ \A g \in Keys, y \in NewCaps, oc \in BOOLEAN :
              (HasPending /\ Lt(Pending.proposed_at, clock)
                  /\ ProposeCall(g, TRUE, y, oc) /\ last'.result = "Ok") =>
                  config'[1].pending_cap_update =
                      Some(PendingCapUpdate(y, clock, Add(clock, timelock_duration)))
       /\ \A g \in Keys :
              (HasPending /\ g = config[1].governance_authority
                  /\ Lt(clock, TimelockEnd) /\ ExecuteUpdateCall(g, TRUE)) =>
                  last'.result = "TimelockNotExpired"
      ]_vars

\* C9: whenever an update is pending, execution_time = proposed_at + 172800
\* and execution_time > proposed_at.
C9_ExecutionTimeAfterProposedAt ==
    HasPending =>
        /\ Pending.execution_time = TimelockEnd
        /\ Gt(Pending.execution_time, Pending.proposed_at)

\* The last instruction was a call of `op`, one of the two hook entry
\* points, that passed the account validation; its arguments.
Hooked(op) == Initialized /\ last.op = op /\ last.call # None
CallOwners == last.call[1][1]
CallData == last.call[1][2]
CallAmount == last.call[1][3]
\* Its three accounts were genuine and its destination a token account, owned
\* by the dev wallet or by another key.
ToExempt(op) ==
    /\ Hooked(op) /\ CallOwners = Genuine /\ CallData # InvalidData
    /\ CallData[1].owner = config[1].dev_wallet
ToHolder(op) ==
    /\ Hooked(op) /\ CallOwners = Genuine /\ CallData # InvalidData
    /\ CallData[1].owner # config[1].dev_wallet
\* destination_balance + amount as a number, and min(that, 2^64 - 1).
TrueSum == Add(CallData[1].amount, CallAmount)
CappedSum == IF Lt(TrueSum, U64_MAX) THEN TrueSum ELSE U64_MAX

\* C3: a transfer to an account not owned by the exempt wallet, the
\* ownership checks passing, is accepted iff min(destination_balance +
\* amount, 2^64 - 1) <= cap_raw and is rejected with WalletCapExceeded
\* otherwise.
C3_HolderAcceptedIffWithinCap ==
    ToHolder("transfer_hook") =>
        last.result = IF Leq(CappedSum, config[1].wallet_cap_raw)
                          THEN "Ok" ELSE "WalletCapExceeded"

\* A transfer that takes a holder's balance to exactly cap_raw was accepted.
C3_Witness ==
    /\ ToHolder("transfer_hook")
    /\ TrueSum = config[1].wallet_cap_raw
    /\ last.result = "Ok"

\* C4: a transfer to an account owned by the exempt wallet, the ownership
\* checks passing, is accepted whatever the balance and the amount.
C4_ExemptAlwaysAccepted ==
    ToExempt("transfer_hook") => last.result = "Ok"

\* A transfer that takes the exempt wallet's balance past u64::MAX, far
\* above cap_raw, was accepted.
C4_Witness ==
    /\ ToExempt("transfer_hook")
    /\ Gt(TrueSum, U64_MAX)
    /\ last.result = "Ok"

\* C10: for a holder's account and a true sum above 2^64 - 1, the
\* post-transfer balance the hook computes is 2^64 - 1 and the transfer is
\* rejected with WalletCapExceeded.
C10_SumSaturatesAndIsRejected ==
    (ToHolder("transfer_hook") /\ Gt(TrueSum, U64_MAX)) =>
        /\ last.post_balance = Some(U64_MAX)
        /\ last.result = "WalletCapExceeded"

\* u64::MAX - 1000 plus 2000 to a holder's account was rejected at u64::MAX.
C10_Witness ==
    /\ ToHolder("transfer_hook")
    /\ CallData[1].amount = Sub(U64_MAX, Small(1000))
    /\ CallAmount = Small(2000)
    /\ last.post_balance = Some(U64_MAX)
    /\ last.result = "WalletCapExceeded"

\* C8: cap_raw > 0 in every state after initialize.
C8_CapPositive ==
    Initialized => Gt(config[1].wallet_cap_raw, Zero)

\* An executed update has lowered cap_raw to 1.
C8_Witness ==
    /\ Initialized
    /\ last.op = "execute_wallet_cap_update"
    /\ last.result = "Ok"
    /\ config[1].wallet_cap_raw = One

GovernanceOps ==
    {"propose_wallet_cap_update", "execute_wallet_cap_update", "cancel_wallet_cap_update",
     "update_governance_authority", "migrate_config"}

\* C5: propose, execute, cancel, rotate and migrate, called by a signer that
\* is not the governance authority, fail with UnauthorizedGovernance and
\* leave the config as it was.
C5_UnauthorizedCallsChangeNothing ==
    [][(/\ Initialized
        /\ last'.op \in GovernanceOps
        /\ last'.signer # None
        /\ last'.signer # Some(config[1].governance_authority)) =>
           /\ last'.result = "UnauthorizedGovernance"
           /\ config' = config
      ]_vars

\* An execute was refused as unauthorized although an update was pending
\* and its timelock had run out.
C5_Witness ==
    /\ HasPending
    /\ Geq(clock, TimelockEnd)
    /\ last.op = "execute_wallet_cap_update"
    /\ last.result = "UnauthorizedGovernance"

\* C7: a cancel by the authority succeeds whenever an update is pending,
\* whatever the clock, clears the pending update and leaves cap_raw (and
\* the rest of the config) as it was; with nothing pending, cancel and
\* execute by the authority fail with NoPendingUpdate.
C7_CancelClearsPending ==
    [][/\ (/\ Initialized
           /\ last'.op = "cancel_wallet_cap_update"
           /\ last'.signer = Some(config[1].governance_authority)) =>
              IF HasPending
                  THEN /\ last'.result = "Ok"
                       /\ config' = Some([config[1] EXCEPT !.pending_cap_update = None])
                  ELSE /\ last'.result = "NoPendingUpdate"
                       /\ config' = config
       /\ (/\ Initialized
           /\ ~HasPending
           /\ last'.op = "execute_wallet_cap_update"
           /\ last'.signer = Some(config[1].governance_authority)) =>
              /\ last'.result = "NoPendingUpdate"
              /\ config' = config
      ]_vars

\* An update was cancelled before the clock had advanced at all, so before
\* its execution_time.
C7_Witness ==
    /\ Initialized
    /\ ticks = 0
    /\ last.op = "cancel_wallet_cap_update"
    /\ last.result = "Ok"
    /\ config[1].pending_cap_update = None
    /\ config[1].wallet_cap_raw = WALLET_CAP_RAW

HookOps == {"transfer_hook", "execute"}

\* C11: transfer_hook and execute return the same outcome for the same
\* account owners, destination data, amount and config, and each returns
\* the same outcome when called again with the same inputs: of two
\* consecutive hook calls with the same inputs, through whichever entry
\* points, the second returns what the first returned.  (No hook call
\* changes the config, so the two calls see the same one.)
C11_SameDecisionOnBothPaths ==
    [][(/\ last.op \in HookOps /\ last.call # None
        /\ last'.op \in HookOps /\ last'.call = last.call) =>
           /\ last'.result = last.result
           /\ last'.post_balance = last.post_balance
           /\ config' = config
      ]_vars

\* execute has rejected with WalletCapExceeded a transfer to a holder that
\* goes one past cap_raw, which transfer_hook rejects too.
C11_Witness ==
    /\ ToHolder("execute")
    /\ TrueSum = Add(config[1].wallet_cap_raw, One)
    /\ last.result = "WalletCapExceeded"
    /\ transfer_hook(config[1], CallOwners[1], CallOwners[2], CallOwners[3],
                     CallData, CallAmount).result = "WalletCapExceeded"

\* C12: every transfer_hook and every execute call, accepting or rejecting,
\* leaves the config (version, dev_wallet, wallet_cap_raw,
\* governance_authority, pending_cap_update) and every balance of the ledger
\* as it was.
C12_HooksChangeNothing ==
    [][last'.op \in HookOps => (config' = config /\ balance' = balance)]_vars

\* execute has accepted a transfer that takes a holder to exactly cap_raw
\* while an update was pending, which is still pending.
C12_Witness ==
    /\ HasPending
    /\ ToHolder("execute")
    /\ TrueSum = config[1].wallet_cap_raw
    /\ last.result = "Ok"

\* C13: a governance call that fails, whatever its error, leaves the whole
\* config as it was; so a propose rejected with InvalidWalletCap leaves a
\* pending update in place, and an execute rejected with TimelockNotExpired
\* leaves wallet_cap_raw and the pending update.
C13_FailedCallsChangeNothing ==
    [][(/\ Initialized
        /\ last'.op \in GovernanceOps
        /\ last'.result # "Ok") => config' = config
      ]_vars

\* The authority's propose of a cap above max_reasonable_cap was rejected
\* with InvalidWalletCap, and the update proposed before is still pending.
C13_Witness ==
    /\ HasPending
    /\ last.op = "propose_wallet_cap_update"
    /\ last.call = Some(Add(max_reasonable_cap, One))
    /\ last.result = "InvalidWalletCap"
    /\ Pending.new_cap = One

\* C14: update_governance_authority(new) signed by the current authority A
\* succeeds, at whatever clock time, and sets governance_authority = new;
\* in the very next call, a governance instruction signed by A (A # new)
\* fails with UnauthorizedGovernance and one signed by new is not refused as
\* unauthorized.
C14_RotationTakesEffectAtOnce ==
    [][/\ (/\ Initialized
           /\ last'.op = "update_governance_authority"
           /\ last'.signer = Some(config[1].governance_authority)) =>
              /\ last'.result = "Ok"
              /\ Some(config'[1].governance_authority) = last'.call
       /\ (/\ last.op = "update_governance_authority"
           /\ last.result = "Ok"
           /\ last'.op \in GovernanceOps
           /\ last'.signer # None) =>
              /\ (last'.signer = last.call) =>
                     last'.result \notin {"UnauthorizedGovernance", "AccountNotSigner"}
              /\ (last'.signer = last.signer /\ last.signer # last.call) =>
                     last'.result = "UnauthorizedGovernance"
      ]_vars

\* The authority 1 has handed over to 2 before the clock advanced at all.
C14_Witness ==
    /\ Initialized
    /\ ticks = 0
    /\ last.op = "update_governance_authority"
    /\ last.result = "Ok"
    /\ last.signer = Some(1)
    /\ last.call = Some(2)
    /\ config[1].governance_authority = 2

\* C15: every migrate_config call, whoever signs it and whatever its
\* target_version, fails and leaves the config as it was; version is 1 in
\* every state after initialize and never decreases.
C15_MigrateAlwaysFails ==
    [][/\ last'.op = "migrate_config" =>
              (last'.result # "Ok" /\ config' = config)
       /\ config' # None => config'[1].version = 1
       /\ (Initialized /\ config' # None) => config'[1].version >= config[1].version
      ]_vars

\* The authority's migrate_config was refused with UnsupportedVersion.
C15_Witness ==
    /\ Initialized
    /\ last.op = "migrate_config"
    /\ last.signer = Some(config[1].governance_authority)
    /\ last.result = "UnsupportedVersion"
    /\ config[1].version = 1

\* C16: initialize for a mint without a config account creates one with
\* version = 1, wallet_cap_raw = 5_000_000_000, the dev_wallet and the
\* governance_authority given, and no pending update; an initialize for a
\* mint that has a config account fails and leaves the config as it was.
C16_InitializeOnce ==
    [][/\ \A c \in InitializeCalls :
              (config = None /\ c[1] /\ InitializeCall(c[1], c[2], c[3])) =>
                  /\ last'.result = "Ok"
                  /\ config' = Some([version |-> 1, dev_wallet |-> c[2],
                                     wallet_cap_raw |-> <<0, 5, 0>>,
                                     governance_authority |-> c[3],
                                     pending_cap_update |-> None])
       /\ (Initialized /\ last'.op = "initialize") =>
              (last'.result # "Ok" /\ config' = config)
      ]_vars

\* A second initialize was refused after an executed update had set
\* wallet_cap_raw to 1 and another update had been proposed; both are as
\* they were.
C16_Witness ==
    /\ HasPending
    /\ last.op = "initialize"
    /\ last.result = "AccountAlreadyInUse"
    /\ config[1].wallet_cap_raw = One

\* C17: a transfer_hook or execute call in which the source account, the
\* destination account or the mint is not owned by the Token-2022 program
\* is rejected with InvalidAccountOwner, also when the destination belongs
\* to the dev wallet and when the amount is within the cap.
C17_SpoofedAccountsRejected ==
    (/\ Initialized
     /\ last.op \in HookOps
     /\ last.call # None
     /\ CallOwners # Genuine) => last.result = "InvalidAccountOwner"

\* transfer_hook has rejected a transfer to the dev wallet in which only the
\* mint was not owned by the Token-2022 program.
C17_Witness ==
    /\ Hooked("transfer_hook")
    /\ CallOwners = <<TOKEN_2022_PROGRAM_ID, TOKEN_2022_PROGRAM_ID, TOKEN_PROGRAM_ID>>
    /\ CallData # InvalidData
    /\ CallData[1].owner = config[1].dev_wallet
    /\ last.result = "InvalidAccountOwner"

\* C18: under the ledger, with the cap fixed, the balance of an account that
\* does not belong to the dev wallet never exceeds wallet_cap_raw; with
\* wallet_cap_raw = 5_000_000_000, a transfer of 5_000_000_001 to an empty
\* account of a holder is rejected with WalletCapExceeded, one of exactly
\* 5_000_000_000 is accepted, and a transfer of 1 to an account that holds
\* 5_000_000_000 is rejected with WalletCapExceeded.
C18_BalanceNeverExceedsCap ==
    Initialized =>
        /\ \A k \in Keys :
               k # config[1].dev_wallet => Leq(balance[k], config[1].wallet_cap_raw)
        /\ (ToHolder("transfer") /\ config[1].wallet_cap_raw = <<0, 5, 0>>) =>
               /\ (CallData[1].amount = Zero /\ CallAmount = <<0, 5, 1>>) =>
                      last.result = "WalletCapExceeded"
               /\ (CallData[1].amount = Zero /\ CallAmount = <<0, 5, 0>>) =>
                      last.result = "Ok"
               /\ (CallData[1].amount = <<0, 5, 0>> /\ CallAmount = One) =>
                      last.result = "WalletCapExceeded"

\* With the cap at 5_000_000_000, a holder's account that was credited
\* 5_000_000_000 has been refused 1 more, and holds exactly the cap.
C18_Witness ==
    /\ ToHolder("transfer")
    /\ config[1].wallet_cap_raw = <<0, 5, 0>>
    /\ transfers >= 1
    /\ CallData[1].amount = <<0, 5, 0>>
    /\ CallAmount = One
    /\ last.result = "WalletCapExceeded"
    /\ balance[CallData[1].owner] = <<0, 5, 0>>

\* C19: the records a step appends to the audit log are the events it
\* emits.  A successful propose, execute, cancel and rotate each emit
\* exactly one, carrying the values before and after the step (propose: the
\* new cap, the cap in force, proposed_at, the execution_time stored and the
\* proposer; execute: old_cap = the cap before the step and new_cap = the
\* cap after it; cancel: the new_cap of the update cancelled and the cap,
\* which the step leaves as it was; rotate: the authority before and after),
\* each with the clock time; a call that fails emits none.
C19_AuditRecords ==
    [][/\ last'.result # "Ok" => last'.emitted = <<>>
       /\ (Initialized /\ last'.result = "Ok" /\ last'.op = "propose_wallet_cap_update") =>
              last'.emitted =
                  <<[name |-> "WalletCapUpdateProposed",
                     new_cap |-> config'[1].pending_cap_update[1].new_cap,
                     current_cap |-> config[1].wallet_cap_raw,
                     proposed_at |-> clock,
                     execution_time |-> config'[1].pending_cap_update[1].execution_time,
                     governance_authority |-> last'.signer[1]]>>
       /\ (Initialized /\ last'.result = "Ok" /\ last'.op = "execute_wallet_cap_update") =>
              last'.emitted =
                  <<[name |-> "WalletCapUpdated",
                     old_cap |-> config[1].wallet_cap_raw,
                     new_cap |-> config'[1].wallet_cap_raw,
                     updated_at |-> clock,
                     governance_authority |-> last'.signer[1]]>>
       /\ (Initialized /\ last'.result = "Ok" /\ last'.op = "cancel_wallet_cap_update") =>
              /\ config'[1].wallet_cap_raw = config[1].wallet_cap_raw
              /\ last'.emitted =
                     <<[name |-> "WalletCapUpdateCanceled",
                        canceled_cap |-> config[1].pending_cap_update[1].new_cap,
                        current_cap |-> config[1].wallet_cap_raw,
                        canceled_at |-> clock,
                        governance_authority |-> last'.signer[1]]>>
       /\ (Initialized /\ last'.result = "Ok" /\ last'.op = "update_governance_authority") =>
              last'.emitted =
                  <<[name |-> "GovernanceAuthorityUpdated",
                     old_authority |-> config[1].governance_authority,
                     new_authority |-> config'[1].governance_authority,
                     updated_at |-> clock]>>
      ]_vars

\* An executed update that lowered the cap from 5_000_000_000 to 1 has
\* emitted one WalletCapUpdated with old_cap = 5_000_000_000 and new_cap = 1.
C19_Witness ==
    /\ Initialized
    /\ last.op = "execute_wallet_cap_update"
    /\ last.result = "Ok"
    /\ Len(last.emitted) = 1
    /\ last.emitted[1].name = "WalletCapUpdated"
    /\ last.emitted[1].old_cap = <<0, 5, 0>>
    /\ last.emitted[1].new_cap = One
    /\ config[1].wallet_cap_raw = One

\* C20: the authorization is checked first: a signer that is not the
\* authority gets UnauthorizedGovernance from propose when new_cap is 0 or
\* above max_reasonable_cap, and from execute and cancel when nothing is
\* pending; and for the authority's execute the pending update is checked
\* before the time: with nothing pending the result is NoPendingUpdate,
\* whatever the clock.
C20_ErrorPrecedence ==
    [][/\ (/\ Initialized
           /\ last'.op = "propose_wallet_cap_update"
           /\ last'.signer # None
           /\ last'.signer # Some(config[1].governance_authority)
           /\ (last'.call[1] = Zero \/ Gt(last'.call[1], max_reasonable_cap))) =>
              last'.result = "UnauthorizedGovernance"
       /\ (/\ Initialized
           /\ ~HasPending
           /\ last'.op \in {"execute_wallet_cap_update", "cancel_wallet_cap_update"}
           /\ last'.signer # None
           /\ last'.signer # Some(config[1].governance_authority)) =>
              last'.result = "UnauthorizedGovernance"
       /\ (/\ Initialized
           /\ ~HasPending
           /\ last'.op = "execute_wallet_cap_update"
           /\ last'.signer = Some(config[1].governance_authority)) =>
              last'.result = "NoPendingUpdate"
      ]_vars

\* A propose of new_cap = 0 by a signer that is not the authority was
\* refused with UnauthorizedGovernance.
C20_Witness ==
    /\ Initialized
    /\ last.op = "propose_wallet_cap_update"
    /\ last.signer # None
    /\ last.signer # Some(config[1].governance_authority)
    /\ last.call = Some(Zero)
    /\ last.result = "UnauthorizedGovernance"

\* C21: a propose signed by the authority with new_cap = 0 or new_cap >
\* 100_000_000_000 fails with InvalidWalletCap; in every state after
\* initialize 1 <= wallet_cap_raw <= 100_000_000_000, and the new_cap of a
\* pending update is within the same range.
C21_CapWithinRange ==
    Initialized =>
        /\ Leq(One, config[1].wallet_cap_raw)
        /\ Leq(config[1].wallet_cap_raw, <<0, 100, 0>>)
        /\ HasPending =>
               (Leq(One, Pending.new_cap) /\ Leq(Pending.new_cap, <<0, 100, 0>>))
        /\ (/\ last.op = "propose_wallet_cap_update"
            /\ last.signer = Some(config[1].governance_authority)
            /\ (last.call[1] = Zero \/ Gt(last.call[1], <<0, 100, 0>>))) =>
               last.result = "InvalidWalletCap"

\* The authority's propose of 100_000_000_001 was refused with
\* InvalidWalletCap while the cap in force was 100_000_000_000, the greatest
\* a propose accepts.
C21_Witness ==
    /\ Initialized
    /\ config[1].wallet_cap_raw = <<0, 100, 0>>
    /\ last.op = "propose_wallet_cap_update"
    /\ last.signer = Some(config[1].governance_authority)
    /\ last.call = Some(<<0, 100, 1>>)
    /\ last.result = "InvalidWalletCap"

\* C22: a successful update_governance_authority changes governance_authority
\* and nothing else: version, dev_wallet, wallet_cap_raw and the pending
\* update (new_cap, proposed_at, execution_time) are as they were.  So an
\* update stays pending across it; an execute signed by the authority of the
\* day succeeds once the clock has reached the execution_time stored, and
\* fails with TimelockNotExpired before; and right after the rotation the
\* outgoing authority is refused execute and cancel.
C22_RotationKeepsPending ==
    [][/\ (/\ Initialized
           /\ last'.op = "update_governance_authority"
           /\ last'.result = "Ok") =>
              config' = Some([config[1] EXCEPT !.governance_authority = last'.call[1]])
       /\ (/\ HasPending
           /\ last'.op = "execute_wallet_cap_update"
           /\ last'.signer = Some(config[1].governance_authority)) =>
              IF Geq(clock, Pending.execution_time)
                  THEN /\ last'.result = "Ok"
                       /\ config'[1].wallet_cap_raw = Pending.new_cap
                       /\ config'[1].pending_cap_update = None
                  ELSE /\ last'.result = "TimelockNotExpired"
                       /\ config' = config
       /\ (/\ HasPending
           /\ last.op = "update_governance_authority"
           /\ last.result = "Ok"
           /\ last.signer # last.call
           /\ last'.op \in {"execute_wallet_cap_update", "cancel_wallet_cap_update"}
           /\ last'.signer = last.signer) =>
              /\ last'.result = "UnauthorizedGovernance"
              /\ config' = config
      ]_vars

\* The authority has handed over to another key 48 hours after it proposed
\* an update, which is still pending, with the execution_time it had, and
\* which the new authority can execute now.
C22_Witness ==
    /\ HasPending
    /\ last.op = "update_governance_authority"
    /\ last.result = "Ok"
    /\ last.signer # last.call
    /\ Some(config[1].governance_authority) = last.call
    /\ Pending.execution_time = TimelockEnd
    /\ clock = Pending.execution_time

\* C23: the hook decides a transfer to a holder against the wallet_cap_raw in
\* force, whether an update is pending or not and whether its
\* execution_time has passed or not, never against the pending new_cap; and
\* wallet_cap_raw changes in a successful execute_wallet_cap_update step
\* only, so that a proposal takes effect on the hook calls after its execute
\* and a cancelled one on none.
C23_DecisionsUseCapInForce ==
    /\ [](\A op \in HookOps :
              ToHolder(op) =>
                  last.result = IF Leq(CappedSum, config[1].wallet_cap_raw)
                                    THEN "Ok" ELSE "WalletCapExceeded")
    /\ [][(Initialized /\ config'[1].wallet_cap_raw # config[1].wallet_cap_raw) =>
              (last'.op = "execute_wallet_cap_update" /\ last'.result = "Ok")
         ]_vars

\* While a lower cap of 1 was pending and its execution_time had passed, a
\* transfer that takes a holder to exactly the cap in force, 5_000_000_000,
\* was accepted.
C23_Witness ==
    /\ HasPending
    /\ Pending.new_cap = One
    /\ config[1].wallet_cap_raw = <<0, 5, 0>>
    /\ Geq(clock, Pending.execution_time)
    /\ ToHolder("transfer_hook")
    /\ TrueSum = <<0, 5, 0>>
    /\ last.result = "Ok"

\* The last step was a successful propose, cancel or rotate.
Interfered ==
    /\ last.op \in {"propose_wallet_cap_update", "cancel_wallet_cap_update",
                    "update_governance_authority"}
    /\ last.result = "Ok"
\* The last step was a successful execute that left wallet_cap_raw = x and
\* nothing pending.
Applied(x) ==
    /\ Initialized
    /\ last.op = "execute_wallet_cap_update"
    /\ last.result = "Ok"
    /\ config[1].wallet_cap_raw = x
    /\ config[1].pending_cap_update = None

\* C24: with the clock advancing and the authority attempting execute again
\* and again, an update with new_cap = x that is pending leads to a
\* successful execute after which wallet_cap_raw = x and nothing is pending,
\* unless a propose, a cancel or a rotate succeeds first; and an execute by
\* the authority right after a successful execute fails with
\* NoPendingUpdate.
C24_PendingUpdateIsApplied ==
    /\ \A x \in {One, max_reasonable_cap} :
           (HasPending /\ Pending.new_cap = x /\ ~Interfered) ~> (Applied(x) \/ Interfered)
    /\ [][(/\ last.op = "execute_wallet_cap_update"
           /\ last.result = "Ok"
           /\ last'.op = "execute_wallet_cap_update"
           /\ last'.signer = Some(config[1].governance_authority)) =>
              (last'.result = "NoPendingUpdate" /\ config' = config)
         ]_vars

\* An update to 1 proposed before the clock advanced was executed after the
\* clock had advanced twice.
C24_Witness ==
    /\ Applied(One)
    /\ ticks = 2

====
